---- MODULE Spec2Model ----
(***************************************************************************)
(* Workspace resolution of shim/src/package_manager.rs.                    *)
(*                                                                         *)
(* Strings (paths, glob patterns, messages) are sequences of atoms: an     *)
(* atom is a separator "/", a star "*", an opening bracket "[" or a run of *)
(* ordinary characters such as "node_modules".  A path segment may hold    *)
(* several atoms (<<"x", "node_modules">> is the segment xnode_modules).   *)
(***************************************************************************)
EXTENDS Integers, Sequences, FiniteSets, TLC

(***************************************************************************)
(* Bounds of the model.                                                    *)
(***************************************************************************)
MaxGlobs == 2
MaxDepth == 3
MaxErrors == 2

(***************************************************************************)
(* String helpers.                                                         *)
(***************************************************************************)
Drop(s, k) == SubSeq(s, k + 1, Len(s))

Last(s) == s[Len(s)]

Range(s) == {s[i] : i \in DOMAIN s}

SeqsUpTo(S, n) == UNION {[1..k -> S] : k \in 0..n}

RECURSIVE JoinSegs(_)
JoinSegs(segs) ==
    IF Len(segs) = 0 THEN <<>>
    ELSE IF Len(segs) = 1 THEN segs[1]
    ELSE segs[1] \o <<"/">> \o JoinSegs(Tail(segs))

\* The segments of a path: the maximal runs of atoms between separators.
RECURSIVE SplitSegs(_, _)
SplitSegs(s, cur) ==
    IF s = <<>> THEN <<cur>>
    ELSE IF Head(s) = "/" THEN <<cur>> \o SplitSegs(Tail(s), <<>>)
    ELSE SplitSegs(Tail(s), Append(cur, Head(s)))

Segments(s) == SelectSeq(SplitSegs(s, <<>>), LAMBDA g : g # <<>>)

(***************************************************************************)
(* std::path::PathBuf::push: an absolute argument replaces the path, a     *)
(* relative one is appended after a separator.                             *)
(***************************************************************************)
PathBufPush(self, path) ==
    IF path # <<>> /\ Head(path) = "/" THEN path
    ELSE IF self = <<>> \/ Last(self) = "/" THEN self \o path
    ELSE self \o <<"/">> \o path

(***************************************************************************)
(* globset::Glob::new with the default options (literal_separator off).    *)
(* Tokens: a literal atom, "ZeroOrMore" (a star), "RecursivePrefix" (a     *)
(* leading double star and its separator), "RecursiveSuffix" (a trailing   *)
(* separator and double star), "RecursiveZeroOrMore" (a double star        *)
(* between two separators).                                                *)
(***************************************************************************)
Lit(a) == [t |-> "Literal", a |-> a]

Tok(t) == [t |-> t, a |-> ""]

RECURSIVE ParseGlob(_, _)
ParseGlob(p, toks) ==
    IF p = <<>> THEN toks
    ELSE IF Head(p) # "*" THEN ParseGlob(Tail(p), Append(toks, Lit(Head(p))))
    ELSE IF Len(p) < 2 \/ p[2] # "*"
    THEN ParseGlob(Tail(p), Append(toks, Tok("ZeroOrMore")))
    ELSE \* a double star
      LET rest == Drop(p, 2)
          two  == toks \o <<Tok("ZeroOrMore"), Tok("ZeroOrMore")>>
      IN IF toks = <<>>
         THEN IF rest # <<>> /\ Head(rest) # "/"
              THEN ParseGlob(rest, two)
              ELSE ParseGlob(IF rest = <<>> THEN rest ELSE Tail(rest),
                             <<Tok("RecursivePrefix")>>)
         ELSE IF Last(toks) # Lit("/") /\ Last(toks).t \notin {"RecursivePrefix", "RecursiveZeroOrMore"}
         THEN ParseGlob(rest, two)
         ELSE IF rest # <<>> /\ Head(rest) # "/"
         THEN ParseGlob(rest, two)
         ELSE LET front == SubSeq(toks, 1, Len(toks) - 1)
                  next  == IF rest = <<>> THEN rest ELSE Tail(rest)
              IN IF Last(toks).t = "RecursivePrefix"
                 THEN ParseGlob(next, toks)
                 ELSE IF rest = <<>>
                 THEN ParseGlob(next, Append(front, Tok("RecursiveSuffix")))
                 ELSE ParseGlob(next, Append(front, Tok("RecursiveZeroOrMore")))

\* A pattern with an unclosed character class does not compile.
GlobNew(pattern) ==
    IF "[" \in Range(pattern)
    THEN [ok |-> FALSE, tokens |-> <<>>]
    ELSE [ok |-> TRUE, tokens |-> ParseGlob(pattern, <<>>)]

(***************************************************************************)
(* Matching of a compiled glob: the anchored regular expression globset    *)
(* builds from the tokens.                                                 *)
(***************************************************************************)
RECURSIVE TokensMatch(_, _)
TokensMatch(toks, s) ==
    IF toks = <<>> THEN s = <<>>
    ELSE LET k == Head(toks)
             r == Tail(toks)
         IN CASE k.t = "Literal" ->
                   s # <<>> /\ Head(s) = k.a /\ TokensMatch(r, Tail(s))
              [] k.t = "ZeroOrMore" ->
                   \E n \in 0..Len(s) : TokensMatch(r, Drop(s, n))
              [] k.t = "RecursivePrefix" ->
                   \/ TokensMatch(r, s)
                   \/ \E n \in 1..Len(s) : s[n] = "/" /\ TokensMatch(r, Drop(s, n))
              [] k.t = "RecursiveSuffix" ->
                   s # <<>> /\ Head(s) = "/"
                   /\ \E n \in 1..Len(s) : TokensMatch(r, Drop(s, n))
              [] k.t = "RecursiveZeroOrMore" ->
                   s # <<>> /\ Head(s) = "/"
                   /\ \E n \in 1..Len(s) : s[n] = "/" /\ TokensMatch(r, Drop(s, n))

\* globset::GlobSet::is_match: some glob of the set matches the path.
IsMatch(globset, path) ==
    \E i \in DOMAIN globset : TokensMatch(globset[i], path)

(***************************************************************************)
(* The program's data.                                                     *)
(***************************************************************************)
PackageManager == {"Berry", "Npm", "Pnpm", "Pnpm6", "Yarn"}

\* The repository root, an absolute path.
RootPath == <<"/", "repo">>

\* Workspace globs a declaration file may list; the last does not compile.
AppsGlob == <<"apps", "/", "*">>

PackagesGlob == <<"packages", "/", "*">>

BadGlob == <<"apps", "/", "[">>

Globs == {AppsGlob, PackagesGlob, BadGlob}

GlobLists == SeqsUpTo(Globs, MaxGlobs)

(***************************************************************************)
(* A declaration file on disk: absent (or unreadable), present with text   *)
(* that is not a document of the format, or a document holding one         *)
(* top-level key whose value is a list of strings.                         *)
(***************************************************************************)
AbsentFile == [state |-> "absent", key |-> "", items |-> <<>>]

InvalidFile == [state |-> "invalid", key |-> "", items |-> <<>>]

Document(key, items) == [state |-> "document", key |-> key, items |-> items]

Files ==
    {AbsentFile, InvalidFile}
    \cup {Document(k, l) : k \in {"workspaces", "packages"}, l \in GlobLists}

(***************************************************************************)
(* Results and errors.                                                     *)
(***************************************************************************)
Ok(v) == [ok |-> TRUE, val |-> v, err |-> "", msg |-> <<>>]

Err(e, m) == [ok |-> FALSE, val |-> <<>>, err |-> e, msg |-> m]

NoResult == [ok |-> FALSE, val |-> <<>>, err |-> "none", msg |-> <<>>]

NoPackagesMsg == <<"pnpm-workspace.yaml", ": no packages found. Turborepo requires pnpm workspaces and thus packages to be defined in the root ", "pnpm-workspace.yaml">>

\* fs::read_to_string(root_path.join(name)): the text of the file, or the
\* I/O error of the operating system, which carries no file name.
ReadToString(file) ==
    IF file.state = "absent"
    THEN Err("io::Error", <<"No such file or directory (os error 2)">>)
    ELSE Ok(<<file>>)

\* serde's derived Deserialize of a struct with the one field key, a
\* Vec<PathBuf>: text that is no document, or a document without the field,
\* is an error of the format's parser; unknown fields are ignored.
FromStr(file, key, format) ==
    IF file.state = "invalid"
    THEN Err(format, <<"expected value at line 1 column 1">>)
    ELSE IF file.key # key
    THEN Err(format, <<"missing field ", key>>)
    ELSE Ok(file.items)

\* Mutant: the check for an empty list is left out.
ReadDeclarationAllowEmpty(file, key, format) ==
    LET text == ReadToString(file)
    IN IF ~text.ok THEN text ELSE FromStr(text.val[1], key, format)

ReadDeclaration(file, key, format) ==
    LET text == ReadToString(file)
    IN IF ~text.ok THEN text
       ELSE LET parsed == FromStr(text.val[1], key, format)
            IN IF ~parsed.ok THEN parsed
               ELSE IF parsed.val = <<>>
               THEN Err("anyhow", NoPackagesMsg)
               ELSE Ok(parsed.val)

\* Mutant: every variant reads package.json.
get_workspace_globs_package_json(self, package_json_file, pnpm_workspace_file) ==
    ReadDeclaration(package_json_file, "workspaces", "serde_json::Error")

\* PackageManager::get_workspace_globs
get_workspace_globs(self, package_json_file, pnpm_workspace_file) ==
    IF self \in {"Pnpm", "Pnpm6"}
    THEN ReadDeclaration(pnpm_workspace_file, "packages", "serde_yaml::Error")
    ELSE ReadDeclaration(package_json_file, "workspaces", "serde_json::Error")

(***************************************************************************)
(* GlobSetBuilder: add each pattern, failing on the first that does not    *)
(* compile.                                                                *)
(***************************************************************************)
BuildGlobSet(patterns) ==
    IF \E i \in DOMAIN patterns : ~GlobNew(patterns[i]).ok
    THEN Err("globset::Error", <<"unclosed character class">>)
    ELSE Ok([i \in DOMAIN patterns |-> GlobNew(patterns[i]).tokens])

\* Mutant: the Berry patterns made recursive.
BerryIgnoresRecursive == << <<"*", "*", "/", "node_modules", "/", "*", "*">>, <<"*", "*", "/", ".git", "/", "*", "*">>, <<"*", "*", "/", ".yarn", "/", "*", "*">> >>

BerryIgnores == << <<"*", "*", "/", "node_modules">>, <<"*", "*", "/", ".git">>, <<"*", "*", "/", ".yarn">> >>

\* Mutant: the Npm pattern without its recursive suffix.
NpmIgnoresDirectoryOnly == << <<"*", "*", "/", "node_modules">> >>

NpmIgnores == << <<"*", "*", "/", "node_modules", "/", "*", "*">> >>

PnpmIgnores == << <<"*", "*", "/", "node_modules", "/", "*", "*">>, <<"*", "*", "/", "bower_components", "/", "*", "*">> >>

\* The Yarn arm: one pattern per workspace glob, the glob with
\* "/node_modules/**" pushed onto it.
YarnIgnorePattern(glob) == PathBufPush(glob, <<"/", "node_modules", "/", "*", "*">>)

YarnIgnores(globs) == [i \in DOMAIN globs |-> YarnIgnorePattern(globs[i])]

\* The patterns PackageManager::get_workspace_ignores compiles, or the error
\* of the nested get_workspace_globs call.
IgnorePatterns(self, package_json_file, pnpm_workspace_file) ==
    CASE self = "Berry" -> Ok(BerryIgnores)
      [] self = "Npm" -> Ok(NpmIgnores)
      [] self \in {"Pnpm", "Pnpm6"} -> Ok(PnpmIgnores)
      [] self = "Yarn" ->
           LET globs == get_workspace_globs(self, package_json_file, pnpm_workspace_file)
           IN IF ~globs.ok THEN globs ELSE Ok(YarnIgnores(globs.val))

\* PackageManager::get_workspace_ignores
get_workspace_ignores(self, package_json_file, pnpm_workspace_file) ==
    LET patterns == IgnorePatterns(self, package_json_file, pnpm_workspace_file)
    IN IF ~patterns.ok THEN patterns ELSE BuildGlobSet(patterns.val)

(***************************************************************************)
(* The positive glob set of get_workspaces: for each workspace glob, push  *)
(* "package.json" and format it behind the root.                           *)
(***************************************************************************)
\* Mutant: the manifest name is not pushed.
WorkspacePatternNoManifest(root_path, path) == root_path \o <<"/">> \o path

WorkspacePattern(root_path, path) ==
    root_path \o <<"/">> \o PathBufPush(path, <<"package.json">>)

WorkspacePatterns(root_path, workspace_paths_) ==
    [i \in DOMAIN workspace_paths_ |-> WorkspacePattern(root_path, workspace_paths_[i])]

(***************************************************************************)
(* The file tree under the root, in traversal order.  Each entry is the    *)
(* sequence of its segments below the root; an entry that is not a file is *)
(* a directory, present when a file beneath it is.                         *)
(***************************************************************************)
Tree == <<
    << <<"apps">> >>,
    << <<"apps">>, <<".git">> >>,
    << <<"apps">>, <<".git">>, <<"package.json">> >>,
    << <<"apps">>, <<"web">> >>,
    << <<"apps">>, <<"web">>, <<"node_modules">> >>,
    << <<"apps">>, <<"web">>, <<"node_modules">>, <<"package.json">> >>,
    << <<"apps">>, <<"web">>, <<"package.json">> >>,
    << <<"packages">> >>,
    << <<"packages">>, <<"bower_components">> >>,
    << <<"packages">>, <<"bower_components">>, <<"package.json">> >>
>>

IsFile(entry) == Last(entry) = <<"package.json">>

TreeFiles == {Tree[i] : i \in {j \in DOMAIN Tree : IsFile(Tree[j])}}

IsPrefix(a, b) == Len(a) <= Len(b) /\ SubSeq(b, 1, Len(a)) = a

\* The entry exists in the file system whose files are files_.
Exists(entry, files_) == \E f \in files_ : IsPrefix(entry, f)

AbsPath(root_path, entry) == root_path \o <<"/">> \o JoinSegs(entry)

\* The entry and the directories above it, below the root.
Ancestors(entry) == {SubSeq(entry, 1, k) : k \in 1..Len(entry)}

(***************************************************************************)
(* GlobWalker (crate::paths): walks the tree under the root, skips every   *)
(* entry whose path matches the ignore set together with all that lies     *)
(* beneath it, and yields the entries whose path matches the positive set. *)
(* Reading an entry may fail; the walker then yields the error.            *)
(***************************************************************************)
Visited(root_path, exclude, files_) ==
    SelectSeq(Tree, LAMBDA e :
        /\ Exists(e, files_)
        /\ \A a \in Ancestors(e) : ~IsMatch(exclude, AbsPath(root_path, a)))

WalkEntry(root_path, include, failing, e) ==
    IF e \in failing
    THEN <<Err("walkdir::Error", AbsPath(root_path, e))>>
    ELSE IF IsMatch(include, AbsPath(root_path, e))
    THEN <<Ok(AbsPath(root_path, e))>>
    ELSE <<>>

RECURSIVE WalkEntries(_, _, _, _)
WalkEntries(root_path, include, failing, entries) ==
    IF entries = <<>> THEN <<>>
    ELSE WalkEntry(root_path, include, failing, Head(entries))
         \o WalkEntries(root_path, include, failing, Tail(entries))

GlobWalkerNew(root_path, include, exclude, files_, failing) ==
    WalkEntries(root_path, include, failing, Visited(root_path, exclude, files_))

\* Mutant: the two glob sets handed over in the wrong order.
NewWalkerSwapped(root_path, workspace_globs_, ignores_, files_, failing) ==
    GlobWalkerNew(root_path, ignores_, workspace_globs_, files_, failing)

\* get_workspaces hands the walker the root, the positive set and the ignores.
NewWalker(root_path, workspace_globs_, ignores_, files_, failing) ==
    GlobWalkerNew(root_path, workspace_globs_, ignores_, files_, failing)

RECURSIVE CollectFrom(_, _)
CollectFrom(entries, acc) ==
    IF entries = <<>> THEN Ok(acc)
    ELSE IF ~Head(entries).ok THEN Head(entries)
    ELSE CollectFrom(Tail(entries), Append(acc, Head(entries).val))

\* Mutant: the entries that failed are dropped and the rest returned.
CollectOkOnly(entries) ==
    Ok([i \in DOMAIN SelectSeq(entries, LAMBDA e : e.ok) |-> SelectSeq(entries, LAMBDA e : e.ok)[i].val])

\* Iterator::collect into Result<Vec<_>>: the first error, or every path.
Collect(entries) == CollectFrom(entries, <<>>)

(***************************************************************************)
(* State.                                                                  *)
(***************************************************************************)
VARIABLES
    manager,              \* the PackageManager variant (self)
    package_json,         \* <root>/package.json
    pnpm_workspace_yaml,  \* <root>/pnpm-workspace.yaml
    fs,                   \* the files under the root
    pc,                   \* the position of the call in progress
    workspace_paths,      \* get_workspaces: the globs of its first read
    workspace_globs,      \* get_workspaces: the compiled positive set
    ignore_globs,         \* get_workspace_ignores: the globs of the nested read
    ignores,              \* the compiled ignore set
    glob_walker,          \* the entries the walker yields, once created
    result,               \* the value the call returned
    path,                 \* the path asked of GlobSet::is_match
    matched               \* the answer of GlobSet::is_match

vars == <<manager, package_json, pnpm_workspace_yaml, fs, pc, workspace_paths,
          workspace_globs, ignore_globs, ignores, glob_walker, result, path,
          matched>>

NoWalker == [created |-> FALSE, entries |-> <<>>]

Locals ==
    /\ workspace_paths = <<>>
    /\ workspace_globs = <<>>
    /\ ignore_globs = <<>>
    /\ ignores = <<>>
    /\ glob_walker = NoWalker
    /\ result = NoResult
    /\ matched = FALSE

(***************************************************************************)
(* get_workspace_globs, called on any variant and any pair of files.       *)
(***************************************************************************)
InitGlobs ==
    /\ manager \in PackageManager
    /\ package_json \in Files
    /\ pnpm_workspace_yaml \in Files
    /\ fs = {}
    /\ pc = "start"
    /\ path = <<>>
    /\ Locals

CallGetWorkspaceGlobs ==
    /\ pc = "start"
    /\ result' = get_workspace_globs(manager, package_json, pnpm_workspace_yaml)
    /\ pc' = "done"
    /\ UNCHANGED <<manager, package_json, pnpm_workspace_yaml, fs, workspace_paths,
                   workspace_globs, ignore_globs, ignores, glob_walker, path,
                   matched>>

NextGlobs == CallGetWorkspaceGlobs

SpecGlobs == InitGlobs /\ [][NextGlobs]_vars

(***************************************************************************)
(* get_workspace_ignores followed by GlobSet::is_match on a path, as in    *)
(* tests::test_get_workspace_ignores.  Only the Yarn arm reads a file.     *)
(***************************************************************************)
PathSegments ==
    {<<"node_modules">>, <<"x", "node_modules">>, <<"bower_components">>,
     <<".git">>, <<".yarn">>, <<"apps">>}

QueryPaths ==
    LET rel == {JoinSegs(p) : p \in SeqsUpTo(PathSegments, MaxDepth) \ {<<>>}}
    IN rel \cup {<<"/">> \o r : r \in rel}

InitIgnores ==
    /\ manager \in PackageManager
    /\ package_json \in (IF manager = "Yarn" THEN Files ELSE {AbsentFile})
    /\ pnpm_workspace_yaml = AbsentFile
    /\ fs = {}
    /\ pc = "start"
    /\ path \in QueryPaths
    /\ Locals

CallIsMatch ==
    /\ pc = "start"
    /\ LET set == get_workspace_ignores(manager, package_json, pnpm_workspace_yaml)
       IN /\ result' = set
          /\ ignores' = set.val
          /\ matched' = (set.ok /\ IsMatch(set.val, path))
    /\ pc' = "done"
    /\ UNCHANGED <<manager, package_json, pnpm_workspace_yaml, fs, workspace_paths,
                   workspace_globs, ignore_globs, glob_walker, path>>

NextIgnores == CallIsMatch

SpecIgnores == InitIgnores /\ [][NextIgnores]_vars

(***************************************************************************)
(* get_workspaces, step by step at its reads of the outside world, while   *)
(* another process may rewrite the declaration file.                       *)
(***************************************************************************)
DeclarationKey(self) == IF self \in {"Pnpm", "Pnpm6"} THEN "packages" ELSE "workspaces"

OtherKey(self) == IF self \in {"Pnpm", "Pnpm6"} THEN "workspaces" ELSE "packages"

\* The contents of one declaration file that tell calls of a variant apart.
Declarations(self) ==
    {AbsentFile, InvalidFile, Document(OtherKey(self), <<AppsGlob>>)}
    \cup {Document(DeclarationKey(self), l) : l \in GlobLists}

Init ==
    /\ manager \in PackageManager
    /\ package_json \in Declarations(manager)
    /\ pnpm_workspace_yaml \in Declarations(manager)
    /\ (manager \in {"Pnpm", "Pnpm6"} => package_json = AbsentFile)
    /\ (manager \notin {"Pnpm", "Pnpm6"} => pnpm_workspace_yaml = AbsentFile)
    /\ fs \in SUBSET TreeFiles
    /\ pc = "start"
    /\ path = <<>>
    /\ Locals

\* Lines 144-161: read the globs, build and compile the positive set.
ReadGlobs ==
    /\ pc = "start"
    /\ LET globs == get_workspace_globs(manager, package_json, pnpm_workspace_yaml)
           set == BuildGlobSet(WorkspacePatterns(RootPath, globs.val))
       IN IF ~globs.ok
          THEN /\ result' = globs
               /\ pc' = "done"
               /\ UNCHANGED <<workspace_paths, workspace_globs>>
          ELSE /\ workspace_paths' = globs.val
               /\ IF ~set.ok
                  THEN /\ result' = set
                       /\ pc' = "done"
                       /\ UNCHANGED workspace_globs
                  ELSE /\ workspace_globs' = set.val
                       /\ pc' = "ignores"
                       /\ UNCHANGED result
    /\ UNCHANGED <<manager, package_json, pnpm_workspace_yaml, fs, ignore_globs,
                   ignores, glob_walker, path, matched>>

\* Line 163: get_workspace_ignores, which for Yarn reads package.json again.
ReadIgnores ==
    /\ pc = "ignores"
    /\ LET set == get_workspace_ignores(manager, package_json, pnpm_workspace_yaml)
           nested == get_workspace_globs(manager, package_json, pnpm_workspace_yaml)
       IN /\ ignore_globs' = IF manager = "Yarn" THEN nested.val ELSE <<>>
          /\ IF ~set.ok
             THEN /\ result' = set
                  /\ pc' = "done"
                  /\ UNCHANGED ignores
             ELSE /\ ignores' = set.val
                  /\ pc' = "walk"
                  /\ UNCHANGED result
    /\ UNCHANGED <<manager, package_json, pnpm_workspace_yaml, fs, workspace_paths,
                   workspace_globs, glob_walker, path, matched>>

\* Line 165: the walker over the file system; some reads may fail.
CreateWalker ==
    /\ pc = "walk"
    /\ \E failing \in SUBSET fs :
         /\ Cardinality(failing) <= MaxErrors
         /\ glob_walker' = [created |-> TRUE,
                            entries |-> NewWalker(RootPath, workspace_globs, ignores, fs, failing)]
    /\ pc' = "collect"
    /\ UNCHANGED <<manager, package_json, pnpm_workspace_yaml, fs, workspace_paths,
                   workspace_globs, ignore_globs, ignores, result, path, matched>>

\* Lines 167-169: collect the yielded entries.
CollectWalker ==
    /\ pc = "collect"
    /\ result' = Collect(glob_walker.entries)
    /\ pc' = "done"
    /\ UNCHANGED <<manager, package_json, pnpm_workspace_yaml, fs, workspace_paths,
                   workspace_globs, ignore_globs, ignores, glob_walker, path,
                   matched>>

\* Another process rewrites package.json between the two reads of it that
\* the Yarn call makes (lines 144 and 116).  No other variant reads its
\* declaration file a second time, and no call reads it after this step, so
\* no other write can reach the call.
WritePackageJson ==
    /\ pc = "ignores"
    /\ manager = "Yarn"
    /\ \E f \in Declarations(manager) \ {package_json} : package_json' = f
    /\ UNCHANGED <<manager, pnpm_workspace_yaml, fs, pc, workspace_paths,
                   workspace_globs, ignore_globs, ignores, glob_walker, result,
                   path, matched>>

Next ==
    \/ ReadGlobs
    \/ ReadIgnores
    \/ CreateWalker
    \/ CollectWalker
    \/ WritePackageJson

Spec == Init /\ [][Next]_vars

(***************************************************************************)
(* Vocabulary of the properties.                                           *)
(***************************************************************************)
\* The declaration file a variant is documented to read, and its name.
DeclaredFile == IF manager \in {"Pnpm", "Pnpm6"} THEN pnpm_workspace_yaml ELSE package_json

DeclaredName == IF manager \in {"Pnpm", "Pnpm6"} THEN "pnpm-workspace.yaml" ELSE "package.json"

Deserializes(file, key) == file.state = "document" /\ file.key = key

\* Some segment of the path is exactly the name.
HasSegment(p, name) == \E i \in DOMAIN Segments(p) : Segments(p)[i] = <<name>>

\* Some segment of the path other than its last is exactly the name.
HasInnerSegment(p, name) ==
    \E i \in DOMAIN Segments(p) : i < Len(Segments(p)) /\ Segments(p)[i] = <<name>>

FinalSegment(p) == Last(Segments(p))

\* The directories above an absolute path: its prefixes before a separator.
AncestorPaths(p) == {SubSeq(p, 1, k - 1) : k \in {j \in DOMAIN p : j > 1 /\ p[j] = "/"}}

\* The positive pattern <root>/<G>/package.json, compiled.
ManifestGlob(g) == GlobNew(RootPath \o <<"/">> \o g \o <<"/", "package.json">>).tokens

\* The ignore pattern G/node_modules/**, compiled.
NestedModulesGlob(g) == GlobNew(g \o <<"/", "node_modules", "/", "*", "*">>).tokens

ErrorsOf(entries) == {i \in DOMAIN entries : ~entries[i].ok}

FirstError(entries) == entries[CHOOSE i \in ErrorsOf(entries) : \A j \in ErrorsOf(entries) : i <= j]

(***************************************************************************)
(* C1: no path get_workspaces returns matches the ignore set the call      *)
(* built, nor lies beneath a directory that matches it, also when the path *)
(* matches a positive glob.                                                *)
(***************************************************************************)
C1_IgnoredNeverReturned ==
    (pc = "done" /\ result.ok) =>
        \A i \in DOMAIN result.val :
            /\ ~IsMatch(ignores, result.val[i])
            /\ \A a \in AncestorPaths(result.val[i]) : ~IsMatch(ignores, a)

\* A call succeeded although a file matched by both sets, or lying beneath
\* an ignored directory and matched by the positive set, was in the tree.
C1_Witness ==
    /\ pc = "done" /\ result.ok /\ result.val # <<>>
    /\ \E f \in fs :
         /\ IsMatch(workspace_globs, AbsPath(RootPath, f))
         /\ \/ IsMatch(ignores, AbsPath(RootPath, f))
            \/ \E a \in AncestorPaths(AbsPath(RootPath, f)) : IsMatch(ignores, a)

(***************************************************************************)
(* C2: for Yarn the ignore set holds exactly one pattern per declared      *)
(* glob G, namely G/node_modules/**, so that is_match answers by those     *)
(* patterns.                                                               *)
(***************************************************************************)
C2_YarnIgnoresNested ==
    (pc = "done" /\ manager = "Yarn" /\ result.ok) =>
        /\ Len(ignores) = Len(package_json.items)
        /\ \A i \in DOMAIN ignores : ignores[i] = NestedModulesGlob(package_json.items[i])
        /\ matched = \E i \in DOMAIN package_json.items :
                        TokensMatch(NestedModulesGlob(package_json.items[i]), path)

(***************************************************************************)
(* C3, as stated: for Npm, Pnpm and Pnpm6 a path with a node_modules       *)
(* segment in any position, the last included, matches the ignore set, and *)
(* a path without such a segment (for the pnpm variants also without a     *)
(* bower_components segment) does not.                                     *)
(***************************************************************************)
C3_AnySegmentMatches ==
    (pc = "done" /\ manager \in {"Npm", "Pnpm", "Pnpm6"}) =>
        /\ HasSegment(path, "node_modules") => matched
        /\ (/\ ~HasSegment(path, "node_modules")
            /\ manager # "Npm" => ~HasSegment(path, "bower_components"))
           => ~matched

(***************************************************************************)
(* C3, amended: for Npm, Pnpm and Pnpm6 a path with a node_modules segment *)
(* that is followed by a further segment matches the ignore set, and a     *)
(* path without a node_modules segment (for the pnpm variants also without *)
(* a bower_components segment) does not.                                   *)
(***************************************************************************)
C3_BeneathNodeModulesMatches ==
    (pc = "done" /\ manager \in {"Npm", "Pnpm", "Pnpm6"}) =>
        /\ HasInnerSegment(path, "node_modules") => matched
        /\ (/\ ~HasSegment(path, "node_modules")
            /\ manager # "Npm" => ~HasSegment(path, "bower_components"))
           => ~matched

\* Npm was asked about apps/node_modules/apps, and it matched.
C3_Witness ==
    /\ pc = "done" /\ manager = "Npm" /\ matched
    /\ path = <<"apps", "/", "node_modules", "/", "apps">>

(***************************************************************************)
(* C4: get_workspace_globs never succeeds with an empty list, and the      *)
(* declaration file alone decides its outcome: absent gives the I/O error, *)
(* present but not deserializable gives the parser's error, and the empty  *)
(* error is raised exactly when the file deserializes to zero globs; the   *)
(* three kinds of error differ.                                            *)
(***************************************************************************)
C4_OutcomeByFile ==
    pc = "done" =>
        LET key == IF manager \in {"Pnpm", "Pnpm6"} THEN "packages" ELSE "workspaces"
            parser == IF manager \in {"Pnpm", "Pnpm6"} THEN "serde_yaml::Error" ELSE "serde_json::Error"
        IN /\ result.ok => result.val # <<>>
           /\ (DeclaredFile.state = "absent") <=> (~result.ok /\ result.err = "io::Error")
           /\ (DeclaredFile.state # "absent" /\ ~Deserializes(DeclaredFile, key))
                 <=> (~result.ok /\ result.err = parser)
           /\ (Deserializes(DeclaredFile, key) /\ DeclaredFile.items = <<>>)
                 <=> (~result.ok /\ result.err = "anyhow")
           /\ Cardinality({"io::Error", parser, "anyhow"}) = 3

\* The call met a document whose list is empty and returned the empty error.
C4_Witness ==
    /\ pc = "done" /\ ~result.ok /\ result.err = "anyhow"
    /\ DeclaredFile.state = "document" /\ DeclaredFile.items = <<>>

(***************************************************************************)
(* C5: get_workspace_globs reads pnpm-workspace.yaml (key packages) for    *)
(* the pnpm variants and package.json (key workspaces) for the others, its *)
(* outcome does not depend on the other file, and on success it returns    *)
(* the declared list, same elements in the same order.                     *)
(***************************************************************************)
C5_DeclaredListReturned ==
    pc = "done" =>
        /\ result.ok =>
             /\ Deserializes(DeclaredFile, IF manager \in {"Pnpm", "Pnpm6"} THEN "packages" ELSE "workspaces")
             /\ Len(result.val) = Len(DeclaredFile.items)
             /\ \A i \in DOMAIN result.val : result.val[i] = DeclaredFile.items[i]
        /\ \A other \in Files :
             result = IF manager \in {"Pnpm", "Pnpm6"}
                      THEN get_workspace_globs(manager, other, pnpm_workspace_yaml)
                      ELSE get_workspace_globs(manager, package_json, other)

\* The example of tests::test_get_workspace_globs, and a pnpm call that
\* succeeds whatever package.json holds.
C5_Witness ==
    /\ pc = "done" /\ result.ok
    /\ \/ manager = "Npm" /\ result.val = <<AppsGlob, PackagesGlob>>
          /\ pnpm_workspace_yaml = Document("packages", <<PackagesGlob>>)
       \/ manager = "Pnpm" /\ result.val = <<PackagesGlob, AppsGlob>>
          /\ package_json = InvalidFile

(***************************************************************************)
(* C6: every path of a successful get_workspaces ends in the component     *)
(* package.json and matches <root>/<G>/package.json for a declared glob G, *)
(* and the positive set holds exactly one such pattern per declared glob.  *)
(***************************************************************************)
C6_OnlyManifests ==
    (pc = "done" /\ result.ok) =>
        /\ \A i \in DOMAIN result.val :
             /\ FinalSegment(result.val[i]) = <<"package.json">>
             /\ \E j \in DOMAIN workspace_paths :
                  TokensMatch(ManifestGlob(workspace_paths[j]), result.val[i])
        /\ Len(workspace_globs) = Len(workspace_paths)
        /\ \A j \in DOMAIN workspace_paths : workspace_globs[j] = ManifestGlob(workspace_paths[j])

\* A call returned two manifests found through two declared globs.
C6_Witness ==
    /\ pc = "done" /\ result.ok /\ Len(result.val) >= 2
    /\ workspace_paths = <<AppsGlob, PackagesGlob>>

(***************************************************************************)
(* C7: get_workspaces has no partial success.  An error of the globs, of   *)
(* the positive set or of the ignore set is returned before any walker is  *)
(* created; once the walker exists, the call returns the first error it    *)
(* yields and no path, and only without any error all the yielded paths.   *)
(***************************************************************************)
C7_NoPartialSuccess ==
    pc = "done" =>
        /\ ~glob_walker.created => (~result.ok /\ result.err # "walkdir::Error")
        /\ (~result.ok /\ result.err # "walkdir::Error") => ~glob_walker.created
        /\ (glob_walker.created /\ ErrorsOf(glob_walker.entries) # {}) =>
             /\ result = FirstError(glob_walker.entries)
             /\ ~result.ok /\ result.val = <<>>
        /\ (glob_walker.created /\ ErrorsOf(glob_walker.entries) = {}) =>
             /\ result.ok
             /\ Len(result.val) = Len(glob_walker.entries)
             /\ \A i \in DOMAIN result.val : result.val[i] = glob_walker.entries[i].val

\* The walker yielded a path, then two errors; the call returned the first.
C7_Witness ==
    /\ pc = "done" /\ glob_walker.created
    /\ Cardinality(ErrorsOf(glob_walker.entries)) = 2
    /\ \E i \in DOMAIN glob_walker.entries :
         glob_walker.entries[i].ok /\ \A j \in ErrorsOf(glob_walker.entries) : i < j

(***************************************************************************)
(* C8: for Berry a path matches the ignore set exactly when its final      *)
(* segment is node_modules, .git or .yarn.                                 *)
(***************************************************************************)
C8_BerryFinalSegment ==
    (pc = "done" /\ manager = "Berry") =>
        (matched <=> FinalSegment(path) \in {<<"node_modules">>, <<".git">>, <<".yarn">>})

\* Berry was asked about apps/apps/node_modules, and it matched.
C8_Witness ==
    /\ pc = "done" /\ manager = "Berry" /\ matched
    /\ path = <<"apps", "/", "apps", "/", "node_modules">>

(***************************************************************************)
(* C9: the empty-declaration error of get_workspace_globs names the file   *)
(* that caused it: package.json for Berry, Npm and Yarn, and               *)
(* pnpm-workspace.yaml for Pnpm and Pnpm6.                                 *)
(***************************************************************************)
C9_EmptyErrorNamesFile ==
    (pc = "done" /\ ~result.ok /\ result.err = "anyhow") =>
        DeclaredName \in Range(result.msg)

(***************************************************************************)
(* C10: within one get_workspaces call for Yarn, the globs the ignore set  *)
(* is derived from are the globs the positive set was built from.          *)
(***************************************************************************)
C10_SameGlobsBothReads ==
    (manager = "Yarn" /\ pc \in {"walk", "collect"}) => ignore_globs = workspace_paths

====
